---- MODULE Spec2Model ----
(***************************************************************************)
(* Bastion: the work-stealing executor worker (bastion-executor/worker.rs) *)
(* and the hierarchical actor path (bastion/path.rs).                      *)
(*                                                                         *)
(* Two state machines share this module.  PathSpec drives                  *)
(* BastionPath::append from root(); Spec drives the worker threads'        *)
(* main_loop, the scheduler hook and the load statistics.                  *)
(***************************************************************************)
EXTENDS Integers, Sequences, FiniteSets, TLC

(***************************************************************************)
(* Bounds                                                                  *)
(***************************************************************************)
\* number of distinct BastionId values
NIds == 2
\* longest path built (number of elements)
MaxDepth == 4

VARIABLES
    path,       \* the BastionPath being built
    prev,       \* the receiver (self) of the last append call
    el,         \* the element argument of the last append call
    res,        \* the Result returned by the last append call
    called,     \* TRUE once append has been called
    appended    \* the elements appended with success, in order

pathVars == <<path, prev, el, res, called, appended>>

(***************************************************************************)
(* bastion/src/path.rs                                                     *)
(***************************************************************************)
Ids == 1..NIds

Supervisor(id) == [kind |-> "Supervisor", id |-> id]
Children(id) == [kind |-> "Children", id |-> id]
Child(id) == [kind |-> "Child", id |-> id]

BastionPathElement ==
    {Supervisor(id) : id \in Ids} \cup {Children(id) : id \in Ids}
        \cup {Child(id) : id \in Ids}

\* Option<BastionPathElement>::None
NoElement == [kind |-> "None", id |-> 0]

BastionPath(chain, this) == [parent_chain |-> chain, this |-> this]

root == BastionPath(<< >>, NoElement)

\* self.this.iter().map(|e| e.id()) chained after parent_chain.iter()
iter(p) ==
    p.parent_chain \o (IF p.this = NoElement THEN << >> ELSE <<p.this.id>>)

Ok(p) == [ok |-> TRUE, path |-> p, element |-> NoElement]

\* the error reports the root path
AppendError_Root(p, e) == [ok |-> FALSE, path |-> root, element |-> e]

AppendError(p, e) == [ok |-> FALSE, path |-> p, element |-> e]

\* the new path keeps the chain as it was
PushOk_NoPush(self, e) ==
    Ok(BastionPath(self.parent_chain, e))

\* the Ok arm that pushes the previous terminal id
PushOk(self, e) ==
    Ok(BastionPath(Append(self.parent_chain, self.this.id), e))

\* the Children arm also takes the root
append_ChildrenOnRoot(self, e) ==
    CASE e.kind = "Supervisor" ->
            (CASE self.this.kind = "None" ->
                    Ok(BastionPath(self.parent_chain, e))
               [] self.this.kind = "Supervisor" -> PushOk(self, e)
               [] OTHER ->
                    AppendError(BastionPath(self.parent_chain, self.this), e))
      [] e.kind = "Children" ->
            (CASE self.this.kind = "None" ->
                    Ok(BastionPath(self.parent_chain, e))
               [] self.this.kind = "Supervisor" -> PushOk(self, e)
               [] OTHER ->
                    AppendError(BastionPath(self.parent_chain, self.this), e))
      [] e.kind = "Child" ->
            (CASE self.this.kind = "Children" -> PushOk(self, e)
               [] OTHER ->
                    AppendError(BastionPath(self.parent_chain, self.this), e))

\* the Child arm also takes a Supervisor terminal
append_ChildOnSupervisor(self, e) ==
    CASE e.kind = "Supervisor" ->
            (CASE self.this.kind = "None" ->
                    Ok(BastionPath(self.parent_chain, e))
               [] self.this.kind = "Supervisor" -> PushOk(self, e)
               [] OTHER ->
                    AppendError(BastionPath(self.parent_chain, self.this), e))
      [] e.kind = "Children" ->
            (CASE self.this.kind = "Supervisor" -> PushOk(self, e)
               [] OTHER ->
                    AppendError(BastionPath(self.parent_chain, self.this), e))
      [] e.kind = "Child" ->
            (CASE self.this.kind \in {"Children", "Supervisor"} ->
                    PushOk(self, e)
               [] OTHER ->
                    AppendError(BastionPath(self.parent_chain, self.this), e))

append(self, e) ==
    CASE e.kind = "Supervisor" ->
            (CASE self.this.kind = "None" ->
                    Ok(BastionPath(self.parent_chain, e))
               [] self.this.kind = "Supervisor" -> PushOk(self, e)
               [] OTHER ->
                    AppendError(BastionPath(self.parent_chain, self.this), e))
      [] e.kind = "Children" ->
            (CASE self.this.kind = "Supervisor" -> PushOk(self, e)
               [] OTHER ->
                    AppendError(BastionPath(self.parent_chain, self.this), e))
      [] e.kind = "Child" ->
            (CASE self.this.kind = "Children" -> PushOk(self, e)
               [] OTHER ->
                    AppendError(BastionPath(self.parent_chain, self.this), e))

\* format!("{}", id): the textual form of an id, one string per character
IdText(id) == IF id = 1 THEN <<"a">> ELSE <<"b", ToString(id)>>

RECURSIVE join(_, _)
\* Vec<String>::join(sep)
join(strs, sep) ==
    IF strs = << >> THEN << >>
    ELSE IF Len(strs) = 1 THEN Head(strs)
    ELSE Head(strs) \o sep \o join(Tail(strs), sep)

\* the terminal element is left out
Display_ChainOnly(p) ==
    <<"/">> \o join([i \in 1..Len(p.parent_chain) |->
                        IdText(p.parent_chain[i])], <<"/">>)

\* impl fmt::Display for BastionPath
Display(p) ==
    <<"/">> \o join([i \in 1..Len(iter(p)) |-> IdText(iter(p)[i])], <<"/">>)

\* impl fmt::Debug for BastionPathElement
ElementDebug(e) ==
    CASE e.kind = "Supervisor" -> <<"supervisor#">> \o IdText(e.id)
      [] e.kind = "Children" -> <<"children#">> \o IdText(e.id)
      [] e.kind = "Child" -> <<"child#">> \o IdText(e.id)

\* the elements the Debug form writes for a path that ends in a Child:
\* the last parent as Children, the parents before it as Supervisor
ChildArm(p) ==
    LET parent_len == Len(p.parent_chain) IN
    [i \in 1..parent_len |->
        IF i - 1 = parent_len - 1 THEN Children(p.parent_chain[i])
        ELSE Supervisor(p.parent_chain[i])] \o <<p.this>>

\* the last parent is taken for a Supervisor as well
Debug_AllSupervisors(p) ==
    IF p.this = NoElement THEN <<"/">>
    ELSE LET els == [i \in 1..Len(p.parent_chain) |->
                       Supervisor(p.parent_chain[i])] \o <<p.this>>
         IN  <<"/">> \o join([i \in 1..Len(els) |-> ElementDebug(els[i])],
                              <<"/">>)

\* impl fmt::Debug for BastionPath
Debug(p) ==
    IF p.this = NoElement THEN <<"/">>
    ELSE LET els ==
               IF p.this.kind \in {"Supervisor", "Children"}
               THEN [i \in 1..Len(p.parent_chain) |->
                       Supervisor(p.parent_chain[i])] \o <<p.this>>
               ELSE ChildArm(p)
         IN  <<"/">> \o join([i \in 1..Len(els) |-> ElementDebug(els[i])],
                              <<"/">>)

(***************************************************************************)
(* bastion-executor/src/worker.rs                                          *)
(***************************************************************************)
\* worker threads (the configured parallelism)
NWorkers == 2
\* threads that are not workers and call the scheduler hook
NForeign == 1
\* task handles
NTasks == 3
\* schedule calls made in one run of the model
MaxSched == 3
\* spurious returns from the coordinator's condition in one run
MaxSpurious == 1
NBatch == 4
NLive == 2

Workers == 0..(NWorkers - 1)
Foreign == NWorkers..(NWorkers + NForeign - 1)
Threads == Workers \cup Foreign
Tasks == 1..NTasks

\* Option::None of the QUEUE slot, and of a map entry
None == -1
\* the injector as the destination of a push
Inj == -1
\* no task in the executing frame
NoTask == 0
\* ptr::null() in the STACK slot
Null == 0
\* current() was not called
NoCall == 0
\* current() panicked: called outside the context of the proc
Panicked == -1

VARIABLES
    injector,   \* pool.injector, oldest task first
    local,      \* each worker's deque, oldest task first
    QUEUE,      \* the thread-local QUEUE slot of every thread
    pc,         \* where every thread stands
    cur,        \* the task in each worker's executing frame
    stats,      \* load_balancer::stats(): smp_queues and mean_level
    lock,       \* the RwLock around stats
    core_vec,   \* affine_steal's sorted snapshot
    idx,        \* position of the victim iterator in core_vec
    agg,        \* what the steals of this pass have amounted to so far
    sleep,      \* the coordinator's counter of parked workers
    nSpurious,  \* spurious wake-ups so far
    live,       \* tasks scheduled and not yet through run
    nSched,     \* pushes made by schedule
    nNotify,    \* notify_one calls made by schedule
    pushLog,    \* <<thread, "schedule" or "batch", destination>> per push
    STACK,      \* the thread-local STACK slot of every thread
    curRes,     \* what current() gave each thread that called it
    injRes,     \* what the injector steal of the pass came back with
    outs,       \* <<victim, outcome>> of every peer steal of the pass so far
    lastSched   \* the task a worker scheduled last, its queue not stolen from

execVars == <<injector, local, QUEUE, pc, cur, stats, lock, core_vec, idx,
              agg, sleep, nSpurious, live, nSched, nNotify, pushLog, STACK,
              curRes, injRes, outs, lastSched>>

vars == <<path, prev, el, res, called, appended, injector, local, QUEUE, pc, cur,
          stats, lock, core_vec, idx, agg, sleep, nSpurious, live, nSched,
          nNotify, pushLog, STACK, curRes, injRes, outs, lastSched>>

PathInit ==
    /\ path = root
    /\ prev = root
    /\ el = NoElement
    /\ res = Ok(root)
    /\ called = FALSE
    /\ appended = << >>

\* a caller appends e to its path and keeps the new path when append is Ok
Append_(e) ==
    /\ append(path, e).ok => Len(iter(path)) < MaxDepth
    /\ prev' = path
    /\ el' = e
    /\ res' = append(path, e)
    /\ called' = TRUE
    /\ path' = IF append(path, e).ok THEN append(path, e).path ELSE path
    /\ appended' = IF append(path, e).ok THEN Append(appended, e)
                   ELSE appended
    /\ UNCHANGED execVars

ExecInit ==
    /\ injector = << >>
    /\ local = [w \in Workers |-> << >>]
    /\ QUEUE = [th \in Threads |-> None]
    /\ pc = [th \in Threads |-> IF th \in Workers THEN "init" ELSE "foreign"]
    /\ cur = [w \in Workers |-> NoTask]
    /\ stats = [smp_queues |-> [w \in Workers |-> None], mean_level |-> 0]
    /\ lock = [writer |-> None, readers |-> {}]
    /\ core_vec = [w \in Workers |-> << >>]
    /\ idx = [w \in Workers |-> 0]
    /\ agg = [w \in Workers |-> "Empty"]
    /\ sleep = 0
    /\ nSpurious = 0
    /\ live = {}
    /\ nSched = 0
    /\ nNotify = 0
    /\ pushLog = {}
    /\ STACK = [th \in Threads |-> Null]
    /\ curRes = [th \in Threads |-> NoCall]
    /\ injRes = [w \in Workers |-> "Empty"]
    /\ outs = [w \in Workers |-> << >>]
    /\ lastSched = [w \in Workers |-> NoTask]

Init == PathInit /\ ExecInit

(***************************************************************************)
(* run_queue: the deque and the injector                                   *)
(***************************************************************************)
\* the default batch: about half of what the victim holds
HalfBatch(n) == (n + 1) \div 2

Min(a, b) == IF a < b THEN a ELSE b

\* the queues after worker w stole the k oldest tasks of src, kept the first
\* and pushed the others onto its own deque; src is Inj or a worker
AfterBatch(w, src, k) ==
    LET from == IF src = Inj THEN injector ELSE local[src]
        rest == SubSeq(from, 2, k)
        left == SubSeq(from, k + 1, Len(from))
        l1 == IF src = Inj THEN local ELSE [local EXCEPT ![src] = left]
    IN  [task |-> Head(from),
         injector |-> IF src = Inj THEN left ELSE injector,
         local |-> [l1 EXCEPT ![w] = @ \o rest]]

\* Worker::pop on a queue that is not empty: the owner takes the task it
\* pushed last
pop(q) == [task |-> q[Len(q)], rest |-> SubSeq(q, 1, Len(q) - 1)]

(***************************************************************************)
(* sleepers: the parking coordinator                                       *)
(***************************************************************************)
Parked == {w \in Workers : pc[w] = "parked"}

\* notify_one called by thread th, which goes on at pc value back
notify_one(th, back) ==
    IF sleep > 0
    THEN /\ sleep' = sleep - 1
         /\ \/ \E w \in Parked :
                  pc' = [pc EXCEPT ![th] = back, ![w] = "publish"]
            \/ /\ Parked = {}
               /\ pc' = [pc EXCEPT ![th] = back]
    ELSE /\ pc' = [pc EXCEPT ![th] = back]
         /\ UNCHANGED sleep

\* wait called by worker w
wait(w) ==
    /\ sleep' = sleep + 1
    /\ pc' = [pc EXCEPT ![w] = "parked"]

\* the condition lets a parked worker go without a notification
SpuriousWake(w) ==
    /\ pc[w] = "parked"
    /\ nSpurious < MaxSpurious
    /\ nSpurious' = nSpurious + 1
    /\ pc' = [pc EXCEPT ![w] = "publish"]
    /\ UNCHANGED <<pathVars, lastSched, injRes, outs, STACK, curRes, injector,
                   local, QUEUE, cur, stats, lock, core_vec, idx, agg, sleep,
                   live, nSched, nNotify, pushLog>>

(***************************************************************************)
(* load_balancer: the sampler that derives the mean                        *)
(***************************************************************************)
Entries(smp) == {w \in Workers : smp[w] # None}

RECURSIVE SumOf(_, _)
SumOf(smp, S) ==
    IF S = {} THEN 0
    ELSE LET w == CHOOSE x \in S : TRUE IN smp[w] + SumOf(smp, S \ {w})

MeanOf(smp) ==
    IF Entries(smp) = {} THEN 0
    ELSE SumOf(smp, Entries(smp)) \div Cardinality(Entries(smp))

Sample ==
    /\ lock.writer = None
    /\ lock.readers = {}
    /\ stats.mean_level # MeanOf(stats.smp_queues)
    /\ stats' = [stats EXCEPT !.mean_level = MeanOf(stats.smp_queues)]
    /\ UNCHANGED <<pathVars, lastSched, injRes, outs, STACK, curRes, injector,
                   local, QUEUE, pc, cur, lock, core_vec, idx, agg, sleep,
                   nSpurious, live, nSched, nNotify, pushLog>>

(***************************************************************************)
(* schedule                                                                *)
(***************************************************************************)
\* where a thread goes on after a schedule call
AfterSchedule(th) == IF th \in Workers THEN "running" ELSE "foreign"

\* the slot is not consulted: every task goes onto the injector
ScheduleTarget_AlwaysInjector(th) == Inj

\* a thread without a queue pushes onto worker 0's deque
ScheduleTarget_Worker0(th) == IF QUEUE[th] = None THEN 0 ELSE QUEUE[th]

\* a worker pushes onto the deque of the worker next to it
ScheduleTarget_Neighbour(th) ==
    IF QUEUE[th] = None THEN Inj ELSE (QUEUE[th] + 1) % NWorkers

\* the queue schedule pushes to on thread th
ScheduleTarget(th) == IF QUEUE[th] = None THEN Inj ELSE QUEUE[th]

\* a worker thread's push falls through to the injector as well
SchedulePush_Both(th, t) ==
    /\ pc[th] \in {"running", "foreign"}
    /\ t \notin live
    /\ nSched < MaxSched
    /\ injector' = Append(injector, t)
    /\ IF ScheduleTarget(th) = Inj
       THEN UNCHANGED local
       ELSE local' = [local EXCEPT ![ScheduleTarget(th)] = Append(@, t)]
    /\ pushLog' = pushLog \cup {<<th, "schedule", ScheduleTarget(th)>>}
    /\ live' = live \cup {t}
    /\ nSched' = nSched + 1
    /\ lastSched' = IF th \in Workers THEN [lastSched EXCEPT ![th] = t]
                    ELSE lastSched
    /\ pc' = [pc EXCEPT ![th] = "notify"]
    /\ UNCHANGED <<pathVars, injRes, outs, STACK, curRes, QUEUE, cur, stats,
                   lock, core_vec, idx, agg, sleep, nSpurious, nNotify>>

\* schedule(proc), up to and including the push
SchedulePush(th, t) ==
    /\ pc[th] \in {"running", "foreign"}
    /\ t \notin live
    /\ nSched < MaxSched
    /\ IF ScheduleTarget(th) = Inj
       THEN /\ injector' = Append(injector, t)
            /\ UNCHANGED local
       ELSE /\ local' = [local EXCEPT ![ScheduleTarget(th)] = Append(@, t)]
            /\ UNCHANGED injector
    /\ pushLog' = pushLog \cup {<<th, "schedule", ScheduleTarget(th)>>}
    /\ live' = live \cup {t}
    /\ nSched' = nSched + 1
    /\ lastSched' = IF th \in Workers THEN [lastSched EXCEPT ![th] = t]
                    ELSE lastSched
    /\ pc' = [pc EXCEPT ![th] = "notify"]
    /\ UNCHANGED <<pathVars, injRes, outs, STACK, curRes, QUEUE, cur, stats,
                   lock, core_vec, idx, agg, sleep, nSpurious, nNotify>>

\* schedule(proc): pool::get().sleepers.notify_one()
ScheduleNotify(th) ==
    /\ pc[th] = "notify"
    /\ notify_one(th, AfterSchedule(th))
    /\ nNotify' = nNotify + 1
    /\ UNCHANGED <<pathVars, lastSched, injRes, outs, STACK, curRes, injector,
                   local, QUEUE, cur, stats, lock, core_vec, idx, agg,
                   nSpurious, live, nSched, pushLog>>

\* schedule(proc) up to and including the push, in a run of any length: the
\* calls are not counted
ScheduleAgain(th, t) ==
    /\ pc[th] \in {"running", "foreign"}
    /\ t \notin live
    /\ IF ScheduleTarget(th) = Inj
       THEN /\ injector' = Append(injector, t)
            /\ UNCHANGED local
       ELSE /\ local' = [local EXCEPT ![ScheduleTarget(th)] = Append(@, t)]
            /\ UNCHANGED injector
    /\ live' = live \cup {t}
    /\ pc' = [pc EXCEPT ![th] = "notify"]
    /\ UNCHANGED <<pathVars, lastSched, injRes, outs, STACK, curRes, QUEUE,
                   cur, stats, lock, core_vec, idx, agg, sleep, nSpurious,
                   nSched, nNotify, pushLog>>

\* schedule(proc): pool::get().sleepers.notify_one(), not counted
NotifyAgain(th) ==
    /\ pc[th] = "notify"
    /\ notify_one(th, AfterSchedule(th))
    /\ UNCHANGED <<pathVars, lastSched, injRes, outs, STACK, curRes, injector,
                   local, QUEUE, cur, stats, lock, core_vec, idx, agg,
                   nSpurious, live, nSched, nNotify, pushLog>>

(***************************************************************************)
(* main_loop, stats_generator                                              *)
(***************************************************************************)
\* main_loop: *queue.get() = Some(local)
MainLoopEnter(w) ==
    /\ pc[w] = "init"
    /\ QUEUE' = [QUEUE EXCEPT ![w] = w]
    /\ pc' = [pc EXCEPT ![w] = "publish"]
    /\ UNCHANGED <<pathVars, lastSched, injRes, outs, STACK, curRes, injector,
                   local, cur, stats, lock, core_vec, idx, agg, sleep,
                   nSpurious, live, nSched, nNotify, pushLog>>

\* stats_generator: one turn of the loop around try_write
StatsTryWrite(w) ==
    /\ pc[w] = "publish"
    /\ IF lock.writer = None /\ lock.readers = {}
       THEN /\ lock' = [lock EXCEPT !.writer = w]
            /\ pc' = [pc EXCEPT ![w] = "writing"]
       ELSE UNCHANGED <<lock, pc>>
    /\ UNCHANGED <<pathVars, lastSched, injRes, outs, STACK, curRes, injector,
                   local, QUEUE, cur, stats, core_vec, idx, agg, sleep,
                   nSpurious, live, nSched, nNotify, pushLog>>

\* the write also recomputes the mean
StatsInsert_Recompute(w) ==
    /\ pc[w] = "writing"
    /\ LET smp == [stats.smp_queues EXCEPT ![w] = Len(local[QUEUE[w]])] IN
       stats' = [smp_queues |-> smp, mean_level |-> MeanOf(smp)]
    /\ lock' = [lock EXCEPT !.writer = None]
    /\ pc' = [pc EXCEPT ![w] = "fetch"]
    /\ UNCHANGED <<pathVars, lastSched, injRes, outs, STACK, curRes, injector,
                   local, QUEUE, cur, core_vec, idx, agg, sleep, nSpurious,
                   live, nSched, nNotify, pushLog>>

\* stats_generator: smp_queues.insert(affinity, len), the guard dropped
StatsInsert(w) ==
    /\ pc[w] = "writing"
    /\ stats' = [stats EXCEPT !.smp_queues[w] = Len(local[QUEUE[w]])]
    /\ lock' = [lock EXCEPT !.writer = None]
    /\ pc' = [pc EXCEPT ![w] = "fetch"]
    /\ UNCHANGED <<pathVars, lastSched, injRes, outs, STACK, curRes, injector,
                   local, QUEUE, cur, core_vec, idx, agg, sleep, nSpurious,
                   live, nSched, nNotify, pushLog>>

(***************************************************************************)
(* fetch_proc, affine_steal                                                *)
(***************************************************************************)
\* the pop gives None whatever the queue holds
LocalPop_GiveUp(w, onNone) ==
    /\ pc' = [pc EXCEPT ![w] = onNone]
    /\ UNCHANGED <<cur, local>>

\* local.pop() by worker w: the task moves to w's frame, or w goes to
\* pc value onNone
LocalPop(w, onNone) ==
    LET q == local[QUEUE[w]] IN
    IF q # << >>
    THEN /\ cur' = [cur EXCEPT ![w] = pop(q).task]
         /\ local' = [local EXCEPT ![QUEUE[w]] = pop(q).rest]
         /\ pc' = [pc EXCEPT ![w] = "got"]
    ELSE /\ pc' = [pc EXCEPT ![w] = onNone]
         /\ UNCHANGED <<cur, local>>

\* fetch_proc: local.pop()
FetchPop(w) ==
    /\ pc[w] = "fetch"
    /\ LocalPop(w, "steal_pop")
    /\ lastSched' = [lastSched EXCEPT ![w] = NoTask]
    /\ UNCHANGED <<pathVars, injRes, outs, STACK, curRes, injector, QUEUE,
                   stats, lock, core_vec, idx, agg, sleep, nSpurious, live,
                   nSched, nNotify, pushLog>>

\* affine_steal: local.pop()
AffinePop(w) ==
    /\ pc[w] = "steal_pop"
    /\ LocalPop(w, "steal_read")
    /\ UNCHANGED <<pathVars, lastSched, injRes, outs, STACK, curRes, injector,
                   QUEUE, stats, lock, core_vec, idx, agg, sleep, nSpurious,
                   live, nSched, nNotify, pushLog>>

SortedVecs_Ascending(smp) ==
    LET n == Cardinality(Entries(smp)) IN
    {[i \in 1..n |-> <<f[i], smp[f[i]]>>] :
        f \in {g \in [1..n -> Entries(smp)] :
                 /\ \A i, j \in 1..n : i # j => g[i] # g[j]
                 /\ \A i, j \in 1..n : i < j => smp[g[i]] <= smp[g[j]]}}

\* the (id, depth) pairs of the map in every order sort_by can leave them in
SortedVecs(smp) ==
    LET n == Cardinality(Entries(smp)) IN
    {[i \in 1..n |-> <<f[i], smp[f[i]]>>] :
        f \in {g \in [1..n -> Entries(smp)] :
                 /\ \A i, j \in 1..n : i # j => g[i] # g[j]
                 /\ \A i, j \in 1..n : i < j => smp[g[i]] >= smp[g[j]]}}

\* affine_steal: one turn of repeat_with up to the sort
StealTryRead(w) ==
    /\ pc[w] = "steal_read"
    /\ IF lock.writer = None
       THEN /\ lock' = [lock EXCEPT !.readers = @ \cup {w}]
            /\ \E v \in SortedVecs(stats.smp_queues) :
                  core_vec' = [core_vec EXCEPT ![w] = v]
            /\ idx' = [idx EXCEPT ![w] = 1]
            /\ agg' = [agg EXCEPT ![w] = "Empty"]
            /\ pc' = [pc EXCEPT ![w] = "steal_inj"]
       ELSE UNCHANGED <<lock, core_vec, idx, agg, pc>>
    /\ UNCHANGED <<pathVars, lastSched, injRes, outs, STACK, curRes, injector,
                   local, QUEUE, cur, stats, sleep, nSpurious, live, nSched,
                   nNotify, pushLog>>

\* a steal of k tasks from src came back Success: the pass is over
StealSuccess(w, src, k) ==
    LET b == AfterBatch(QUEUE[w], src, k) IN
    /\ cur' = [cur EXCEPT ![w] = b.task]
    /\ injector' = b.injector
    /\ local' = b.local
    /\ pushLog' = IF k > 1 THEN pushLog \cup {<<w, "batch", QUEUE[w]>>}
                  ELSE pushLog
    /\ lock' = [lock EXCEPT !.readers = @ \ {w}]
    /\ core_vec' = [core_vec EXCEPT ![w] = << >>]
    /\ idx' = [idx EXCEPT ![w] = 0]
    /\ agg' = [agg EXCEPT ![w] = "Empty"]
    /\ injRes' = [injRes EXCEPT ![w] = "Empty"]
    /\ outs' = [outs EXCEPT ![w] = << >>]
    /\ lastSched' = IF src \in Workers THEN [lastSched EXCEPT ![src] = NoTask]
                    ELSE lastSched
    /\ pc' = [pc EXCEPT ![w] = "got"]

\* affine_steal: pool.injector.steal_batch_and_pop(&local)
StealInjector(w) ==
    /\ pc[w] = "steal_inj"
    /\ \/ /\ injector = << >>
          /\ pc' = [pc EXCEPT ![w] = "steal_peers"]
          /\ UNCHANGED <<injector, local, cur, lock, core_vec, idx, agg,
                         injRes, outs, lastSched, pushLog>>
       \/ /\ injector # << >>
          /\ injRes' = [injRes EXCEPT ![w] = "Retry"]
          /\ pc' = [pc EXCEPT ![w] = "steal_peers"]
          /\ UNCHANGED <<injector, local, cur, lock, core_vec, idx, agg,
                         outs, lastSched, pushLog>>
       \/ /\ injector # << >>
          /\ \E k \in 1..HalfBatch(Len(injector)) : StealSuccess(w, Inj, k)
    /\ UNCHANGED <<pathVars, STACK, curRes, QUEUE, stats, sleep, nSpurious,
                   live, nSched, nNotify>>

\* .collect() of the victims' outcomes that were not Success, one at a time:
\* Retry once any of them was Retry, else Empty
collect(acc, s) == IF s = "Retry" THEN "Retry" ELSE acc

\* Steal::or_else of an injector outcome and a peers' outcome, neither of
\* them Success
or_else(first, second) == IF first = "Empty" THEN second ELSE "Retry"

Amount_WholeQueue(v) == Len(local[v])

\* how many tasks one steal from victim v may move
Amount(v) ==
    IF stats.mean_level > 0
    THEN Min(stats.mean_level, Len(local[v]))
    ELSE HalfBatch(Len(local[v]))

\* the outcome of a victim that follows replaces the one before it
StealPeer_LastWins(w) ==
    /\ pc[w] = "steal_peers"
    /\ idx[w] <= Len(core_vec[w])
    /\ LET v == core_vec[w][idx[w]][1] IN
       \/ /\ local[v] = << >>
          /\ idx' = [idx EXCEPT ![w] = @ + 1]
          /\ agg' = [agg EXCEPT ![w] = "Empty"]
          /\ outs' = [outs EXCEPT ![w] = Append(@, <<v, "Empty">>)]
          /\ UNCHANGED <<injector, local, cur, lock, core_vec, injRes, pc,
                         lastSched, pushLog>>
       \/ /\ local[v] # << >>
          /\ idx' = [idx EXCEPT ![w] = @ + 1]
          /\ agg' = [agg EXCEPT ![w] = "Retry"]
          /\ outs' = [outs EXCEPT ![w] = Append(@, <<v, "Retry">>)]
          /\ UNCHANGED <<injector, local, cur, lock, core_vec, injRes, pc,
                         lastSched, pushLog>>
       \/ /\ local[v] # << >>
          /\ \E k \in 1..Amount(v) : StealSuccess(w, v, k)
    /\ UNCHANGED <<pathVars, STACK, curRes, QUEUE, stats, sleep, nSpurious,
                   live, nSched, nNotify>>

\* affine_steal: the steal from the next victim of core_vec
StealPeer(w) ==
    /\ pc[w] = "steal_peers"
    /\ idx[w] <= Len(core_vec[w])
    /\ LET v == core_vec[w][idx[w]][1] IN
       \/ /\ local[v] = << >>
          /\ idx' = [idx EXCEPT ![w] = @ + 1]
          /\ agg' = [agg EXCEPT ![w] = collect(@, "Empty")]
          /\ outs' = [outs EXCEPT ![w] = Append(@, <<v, "Empty">>)]
          /\ UNCHANGED <<injector, local, cur, lock, core_vec, injRes, pc,
                         lastSched, pushLog>>
       \/ /\ local[v] # << >>
          /\ idx' = [idx EXCEPT ![w] = @ + 1]
          /\ agg' = [agg EXCEPT ![w] = collect(@, "Retry")]
          /\ outs' = [outs EXCEPT ![w] = Append(@, <<v, "Retry">>)]
          /\ UNCHANGED <<injector, local, cur, lock, core_vec, injRes, pc,
                         lastSched, pushLog>>
       \/ /\ local[v] # << >>
          /\ \E k \in 1..Amount(v) : StealSuccess(w, v, k)
    /\ UNCHANGED <<pathVars, STACK, curRes, QUEUE, stats, sleep, nSpurious,
                   live, nSched, nNotify>>

\* a pass that was Retry gives None
StealPassEnd_ParkOnRetry(w) ==
    /\ pc[w] = "steal_peers"
    /\ idx[w] > Len(core_vec[w])
    /\ lock' = [lock EXCEPT !.readers = @ \ {w}]
    /\ core_vec' = [core_vec EXCEPT ![w] = << >>]
    /\ idx' = [idx EXCEPT ![w] = 0]
    /\ agg' = [agg EXCEPT ![w] = "Empty"]
    /\ injRes' = [injRes EXCEPT ![w] = "Empty"]
    /\ outs' = [outs EXCEPT ![w] = << >>]
    /\ pc' = [pc EXCEPT ![w] = "wait"]
    /\ UNCHANGED <<pathVars, lastSched, STACK, curRes, injector, local, QUEUE,
                   cur, stats, sleep, nSpurious, live, nSched, nNotify,
                   pushLog>>

\* affine_steal: every victim was tried; find() goes round again on Retry
StealPassEnd(w) ==
    /\ pc[w] = "steal_peers"
    /\ idx[w] > Len(core_vec[w])
    /\ lock' = [lock EXCEPT !.readers = @ \ {w}]
    /\ core_vec' = [core_vec EXCEPT ![w] = << >>]
    /\ idx' = [idx EXCEPT ![w] = 0]
    /\ agg' = [agg EXCEPT ![w] = "Empty"]
    /\ injRes' = [injRes EXCEPT ![w] = "Empty"]
    /\ outs' = [outs EXCEPT ![w] = << >>]
    /\ pc' = [pc EXCEPT ![w] = IF or_else(injRes[w], agg[w]) = "Retry"
                               THEN "steal_read" ELSE "wait"]
    /\ UNCHANGED <<pathVars, lastSched, STACK, curRes, injector, local, QUEUE,
                   cur, stats, sleep, nSpurious, live, nSched, nNotify,
                   pushLog>>

\* set_stack: STACK.with(|st| st.set(stack)) before the body is called
set_stack(w, stack) == [STACK EXCEPT ![w] = stack]

ResetStack_Forgotten(w) == STACK

\* ResetStack::drop: STACK.with(|st| st.set(ptr::null())), on return and on
\* unwinding alike
ResetStack(w) == [STACK EXCEPT ![w] = Null]

\* get_proc_stack: None when the slot is null, else the stack it points to
get_proc_stack(th) == IF STACK[th] = Null THEN None ELSE STACK[th]

\* main_loop: Some(proc) => set_stack(proc.stack(), || proc.run()); the slot
\* is set and the body entered
RunStart(w) ==
    /\ pc[w] = "got"
    /\ STACK' = set_stack(w, cur[w])
    /\ pc' = [pc EXCEPT ![w] = "running"]
    /\ UNCHANGED <<pathVars, lastSched, injRes, outs, curRes, injector, local,
                   QUEUE, cur, stats, lock, core_vec, idx, agg, sleep,
                   nSpurious, live, nSched, nNotify, pushLog>>

\* proc.run() returns: the task completed or suspended; the guard of
\* set_stack is dropped
RunEnd(w) ==
    /\ pc[w] = "running"
    /\ STACK' = ResetStack(w)
    /\ live' = live \ {cur[w]}
    /\ cur' = [cur EXCEPT ![w] = NoTask]
    /\ pc' = [pc EXCEPT ![w] = "publish"]
    /\ UNCHANGED <<pathVars, lastSched, injRes, outs, curRes, injector, local,
                   QUEUE, stats, lock, core_vec, idx, agg, sleep, nSpurious,
                   nSched, nNotify, pushLog>>

\* a panic unwinds out of the frame th is in: inside set_stack the guard is
\* dropped and the proc with it; the thread is gone
Unwind(th) ==
    /\ pc' = [pc EXCEPT ![th] = "dead"]
    /\ IF pc[th] = "running"
       THEN /\ STACK' = ResetStack(th)
            /\ live' = live \ {cur[th]}
            /\ cur' = [cur EXCEPT ![th] = NoTask]
       ELSE UNCHANGED <<STACK, live, cur>>

\* proc.run() panics
RunPanic(w) ==
    /\ pc[w] = "running"
    /\ Unwind(w)
    /\ UNCHANGED <<pathVars, lastSched, injRes, outs, curRes, injector, local,
                   QUEUE, stats, lock, core_vec, idx, agg, sleep, nSpurious,
                   nSched, nNotify, pushLog>>

\* current: get_proc_stack(|s| s.clone()).expect(...), called from a task
\* body or from a thread of no worker
Current(th) ==
    /\ pc[th] \in {"running", "foreign"}
    /\ curRes[th] = NoCall
    /\ IF get_proc_stack(th) # None
       THEN /\ curRes' = [curRes EXCEPT ![th] = get_proc_stack(th)]
            /\ pc' = [pc EXCEPT ![th] = "current"]
            /\ UNCHANGED <<STACK, live, cur>>
       ELSE /\ curRes' = [curRes EXCEPT ![th] = Panicked]
            /\ Unwind(th)
    /\ UNCHANGED <<pathVars, lastSched, injRes, outs, injector, local, QUEUE,
                   stats, lock, core_vec, idx, agg, sleep, nSpurious, nSched,
                   nNotify, pushLog>>

\* the caller takes the stack current returned and goes on
CurrentReturn(th) ==
    /\ pc[th] = "current"
    /\ curRes' = [curRes EXCEPT ![th] = NoCall]
    /\ pc' = [pc EXCEPT ![th] = IF th \in Workers THEN "running" ELSE "foreign"]
    /\ UNCHANGED <<pathVars, lastSched, injRes, outs, STACK, injector, local,
                   QUEUE, cur, stats, lock, core_vec, idx, agg, sleep,
                   nSpurious, live, nSched, nNotify, pushLog>>

\* main_loop: None => pool::get().sleepers.wait()
Park(w) ==
    /\ pc[w] = "wait"
    /\ wait(w)
    /\ UNCHANGED <<pathVars, lastSched, injRes, outs, STACK, curRes, injector,
                   local, QUEUE, cur, stats, lock, core_vec, idx, agg,
                   nSpurious, live, nSched, nNotify, pushLog>>

Next ==
    \/ \E w \in Workers : MainLoopEnter(w)
    \/ \E w \in Workers : StatsTryWrite(w)
    \/ \E w \in Workers : StatsInsert(w)
    \/ \E w \in Workers : FetchPop(w)
    \/ \E w \in Workers : AffinePop(w)
    \/ \E w \in Workers : StealTryRead(w)
    \/ \E w \in Workers : StealInjector(w)
    \/ \E w \in Workers : StealPeer(w)
    \/ \E w \in Workers : StealPassEnd(w)
    \/ \E w \in Workers : RunStart(w)
    \/ \E w \in Workers : RunEnd(w)
    \/ \E w \in Workers : RunPanic(w)
    \/ \E w \in Workers : Park(w)
    \/ \E w \in Workers : SpuriousWake(w)
    \/ \E th \in Threads, t \in Tasks : SchedulePush(th, t)
    \/ \E th \in Threads : ScheduleNotify(th)
    \/ Sample

Spec == Init /\ [][Next]_vars

\* the executor with task bodies and other threads calling current()
StackNext ==
    \/ Next
    \/ \E th \in Threads : Current(th)
    \/ \E th \in Threads : CurrentReturn(th)

StackSpec == Init /\ [][StackNext]_vars

\* the executor some time into a run: worker 0 is in its loop and has just
\* published its depth, it holds k tasks that bodies it ran scheduled, the
\* sampler left some mean m behind, and the other workers are about to
\* enter their loops
BatchInit ==
    /\ PathInit
    /\ \E k \in 0..NBatch, m \in 0..NBatch :
          /\ local = [w \in Workers |->
                         IF w = 0 THEN [i \in 1..k |-> NTasks + i] ELSE << >>]
          /\ live = {NTasks + i : i \in 1..k}
          /\ stats = [smp_queues |->
                         [w \in Workers |-> IF w = 0 THEN k ELSE None],
                      mean_level |-> m]
    /\ injector = << >>
    /\ QUEUE = [th \in Threads |-> IF th = 0 THEN 0 ELSE None]
    /\ pc = [th \in Threads |-> IF th = 0 THEN "fetch"
                                ELSE IF th \in Workers THEN "init"
                                ELSE "foreign"]
    /\ cur = [w \in Workers |-> NoTask]
    /\ lock = [writer |-> None, readers |-> {}]
    /\ core_vec = [w \in Workers |-> << >>]
    /\ idx = [w \in Workers |-> 0]
    /\ agg = [w \in Workers |-> "Empty"]
    /\ sleep = 0
    /\ nSpurious = 0
    /\ nSched = MaxSched - 1
    /\ nNotify = MaxSched - 1
    /\ pushLog = {}
    /\ STACK = [th \in Threads |-> Null]
    /\ curRes = [th \in Threads |-> NoCall]
    /\ injRes = [w \in Workers |-> "Empty"]
    /\ outs = [w \in Workers |-> << >>]
    /\ lastSched = [w \in Workers |-> NoTask]

BatchSpec == BatchInit /\ [][Next]_vars

\* the executor in a run of any length: tasks are scheduled again and again
LiveNext ==
    \/ \E w \in Workers : MainLoopEnter(w)
    \/ \E w \in Workers : StatsTryWrite(w)
    \/ \E w \in Workers : StatsInsert(w)
    \/ \E w \in Workers : FetchPop(w)
    \/ \E w \in Workers : AffinePop(w)
    \/ \E w \in Workers : StealTryRead(w)
    \/ \E w \in Workers : StealInjector(w)
    \/ \E w \in Workers : StealPeer(w)
    \/ \E w \in Workers : StealPassEnd(w)
    \/ \E w \in Workers : RunStart(w)
    \/ \E w \in Workers : RunEnd(w)
    \/ \E w \in Workers : RunPanic(w)
    \/ \E w \in Workers : Park(w)
    \/ \E w \in Workers : SpuriousWake(w)
    \/ \E th \in Threads, t \in 1..NLive : ScheduleAgain(th, t)
    \/ \E th \in Threads : NotifyAgain(th)
    \/ Sample

\* the steps of worker w's thread that the thread takes when it is given
\* the processor: its loop, and the return of the body it runs
WorkerStep(w) ==
    \/ MainLoopEnter(w)
    \/ StatsTryWrite(w)
    \/ StatsInsert(w)
    \/ FetchPop(w)
    \/ AffinePop(w)
    \/ StealTryRead(w)
    \/ StealInjector(w)
    \/ StealPeer(w)
    \/ StealPassEnd(w)
    \/ RunStart(w)
    \/ RunEnd(w)
    \/ NotifyAgain(w)
    \/ Park(w)

\* every worker thread keeps taking steps, so every holder of the stats lock
\* releases it; a steal that is tried again and again on a queue that holds
\* tasks does not come back Retry for ever
LiveFair ==
    \A w \in Workers :
        /\ WF_vars(WorkerStep(w))
        /\ SF_vars(StealInjector(w) /\ pc'[w] = "got")
        /\ SF_vars(StealPeer(w) /\ pc'[w] = "got")

LiveSpec == Init /\ [][LiveNext]_vars /\ LiveFair

PathNext == \E e \in BastionPathElement : Append_(e)

PathSpec == Init /\ [][PathNext]_vars

(***************************************************************************)
(* Properties of the executor                                              *)
(***************************************************************************)
\* how often x occurs in sequence q
Count(q, x) == Cardinality({i \in 1..Len(q) : q[i] = x})

RECURSIVE SumCount(_, _)
SumCount(S, t) ==
    IF S = {} THEN 0
    ELSE LET w == CHOOSE x \in S : TRUE
         IN  Count(local[w], t) + (IF cur[w] = t THEN 1 ELSE 0)
               + SumCount(S \ {w}, t)

\* the number of places task t is in
Places(t) == Count(injector, t) + SumCount(Workers, t)

\* C1: every task that was scheduled and has not been through run is in
\* exactly one place (the injector, one local queue or one worker's frame),
\* and a task that is not scheduled is in none
C1_TaskConservation ==
    \A t \in Tasks : Places(t) = IF t \in live THEN 1 ELSE 0

\* three tasks at once: on the injector, on a local queue and in a frame,
\* after a batch steal has pushed onto a local queue
C1_Witness ==
    /\ Cardinality(live) = 3
    /\ injector # << >>
    /\ \E w \in Workers : local[w] # << >>
    /\ \E w \in Workers : pc[w] = "running"

\* tasks sitting in the injector or in a local queue
Queued == {t \in Tasks : Count(injector, t) > 0
                           \/ \E w \in Workers : Count(local[w], t) > 0}

\* C2: there is no state in which a task is queued, every worker is
\* blocked in wait() and no schedule call is still about to notify
C2_NoLostWakeup ==
    ~ /\ Queued # {}
      /\ \A w \in Workers : pc[w] = "parked"
      /\ \A th \in Threads : pc[th] # "notify"

\* C3: when the only schedule call so far was made by a foreign thread and
\* has returned, the task went onto the injector, and the workers do not
\* all park before the task has run; once it has run the local queues are
\* empty
C3_ForeignTaskRuns ==
    (/\ nSched = 1
     /\ \A th \in Threads : pc[th] # "notify"
     /\ \E th \in Foreign : pushLog = {<<th, "schedule", Inj>>}) =>
        /\ (\A w \in Workers : pc[w] = "parked") => live = {}
        /\ live = {} => \A w \in Workers : local[w] = << >>

\* the schedule pushes of the log
SchedulePushes == {e \in pushLog : e[2] = "schedule"}

\* C4: schedule pushes onto the calling thread's own queue when its QUEUE
\* slot is set and onto the injector otherwise; the slot is set exactly on
\* worker threads that entered main_loop and is never cleared; every
\* schedule call notifies once, after its push
C4_HookRouting ==
    /\ [](\A e \in SchedulePushes :
             e[3] = IF e[1] \in Workers THEN e[1] ELSE Inj)
    /\ [](\A th \in Threads :
             /\ QUEUE[th] # None <=> (th \in Workers /\ pc[th] # "init")
             /\ QUEUE[th] \in {None, th})
    /\ [](nSched = nNotify
                     + Cardinality({th \in Threads : pc[th] = "notify"}))
    /\ [][\A th \in Threads : QUEUE[th] # None => QUEUE'[th] = QUEUE[th]]_vars

\* a worker thread and a foreign thread have both scheduled and notified
C4_Witness ==
    /\ \E e \in SchedulePushes : e[1] \in Workers
    /\ \E e \in SchedulePushes : e[1] \in Foreign
    /\ nNotify >= 2
    /\ \A th \in Threads : pc[th] # "notify"

\* C5: every push onto a worker's local queue, by schedule or by a batch
\* steal, is made by that worker's own thread
C5_SingleProducer ==
    \A e \in pushLog : e[3] \in Workers => e[1] = e[3]

\* a worker pushed onto its queue by schedule, and one by a batch steal
C5_Witness ==
    /\ \E e \in pushLog : e[2] = "schedule" /\ e[3] \in Workers
    /\ \E e \in pushLog : e[2] = "batch"
    /\ \E e \in pushLog : e[1] \in Foreign

Legal ==
    {<<"None", "Supervisor">>, <<"Supervisor", "Supervisor">>,
     <<"Supervisor", "Children">>, <<"Children", "Child">>}

\* C7: append succeeds exactly for the four legal (terminal kind, new kind)
\* pairs and is rejected for the other eight; a Child-terminated path
\* accepts no element
C7_AppendAutomaton ==
    /\ called => (res.ok <=> <<prev.this.kind, el.kind>> \in Legal)
    /\ path.this.kind = "Child" =>
            \A e \in BastionPathElement : ~append(path, e).ok

\* an append onto a Child-terminated path was made and rejected
C7_Witness ==
    called /\ prev.this.kind = "Child" /\ ~res.ok /\ path.this.kind = "Child"

\* C8: a successful append makes e the terminal element and pushes the id
\* of the previous terminal element (none for root) onto parent_chain, so
\* the result iterates as p.iter() followed by e's id, one element longer
C8_AppendEffect ==
    (called /\ res.ok) =>
        /\ res.path.this = el
        /\ res.path.parent_chain =
              (IF prev.this = NoElement THEN prev.parent_chain
               ELSE Append(prev.parent_chain, prev.this.id))
        /\ iter(res.path) = Append(iter(prev), el.id)
        /\ Len(iter(res.path)) = Len(iter(prev)) + 1
        /\ path = res.path

\* a successful append onto a path that already had a parent chain
C8_Witness ==
    called /\ res.ok /\ Len(prev.parent_chain) >= 1 /\ el.kind = "Child"

\* C9: a rejected append returns an AppendError whose path equals the
\* receiver and whose element equals the argument; the caller's path is
\* as it was
C9_RejectNoOp ==
    (called /\ ~res.ok) =>
        /\ res.path.parent_chain = prev.parent_chain
        /\ res.path.this = prev.this
        /\ res.element = el
        /\ path = prev

\* an append onto a path with a parent chain was rejected
C9_Witness ==
    called /\ ~res.ok /\ Len(prev.parent_chain) >= 1

RECURSIVE Split(_, _)
\* the pieces of text s between the separators, acc being the piece so far
Split(s, acc) ==
    IF s = << >> THEN <<acc>>
    ELSE IF Head(s) = "/" THEN <<acc>> \o Split(Tail(s), << >>)
    ELSE Split(Tail(s), Append(acc, Head(s)))

\* the ids a textual path names: what follows the leading separator, cut
\* at the separators; nothing when only the separator is there
IdsBetween(s) == IF Tail(s) = << >> THEN << >> ELSE Split(Tail(s), << >>)

\* C10: the Display form is "/" followed by the ids of iter() joined by
\* "/": the pieces between the separators are the texts of parent_chain in
\* order followed by the terminal element's id, and root displays as "/"
C10_DisplayRoundTrip ==
    LET ids == path.parent_chain \o
                 (IF path.this = NoElement THEN << >> ELSE <<path.this.id>>)
    IN  /\ Head(Display(path)) = "/"
        /\ IdsBetween(Display(path)) = [i \in 1..Len(ids) |-> IdText(ids[i])]
        /\ iter(path) = ids
        /\ path = root => Display(path) = <<"/">>

\* a path of three elements, one of them with a two-character id
C10_Witness ==
    /\ Len(iter(path)) = 3
    /\ path.this.kind = "Child"
    /\ \E i \in 1..3 : Len(IdText(iter(path)[i])) = 2

\* C11: the Debug form of a path built by successful appends lists the ids
\* of iter() in order, each under the kind of the element that was appended
\* at that position; the root path's Debug form is "/"
C11_DebugTrueKinds ==
    /\ Debug(path) =
          <<"/">> \o join([i \in 1..Len(appended) |->
                             ElementDebug(appended[i])], <<"/">>)
    /\ iter(path) = [i \in 1..Len(appended) |-> appended[i].id]
    /\ path = root => Debug(path) = <<"/">>

\* a path of two supervisors, a children group and a child
C11_Witness ==
    /\ Len(appended) = 4
    /\ path.this.kind = "Child"
    /\ appended[3].kind = "Children"
    /\ appended[2].kind = "Supervisor"

\* the kinds of the appended elements
Kinds == [i \in 1..Len(appended) |-> appended[i].kind]

\* C19: the kinds of a reachable path are Supervisors, then at most one
\* Children, then at most one Child; a Children-terminated path has a
\* parent chain of at least 1 and a Child-terminated one of at least 2, so
\* parent_len - 1 in the Debug form is never below zero where it is used
C19_PathShape ==
    /\ \A i \in 1..Len(Kinds) :
          /\ Kinds[i] = "Supervisor" =>
                \A j \in 1..i : Kinds[j] = "Supervisor"
          /\ Kinds[i] = "Children" =>
                /\ i >= 2
                /\ \A j \in 1..(i - 1) : Kinds[j] = "Supervisor"
                /\ \A j \in (i + 1)..Len(Kinds) : Kinds[j] = "Child"
          /\ Kinds[i] = "Child" =>
                /\ i = Len(Kinds)
                /\ i >= 3
                /\ Kinds[i - 1] = "Children"
    /\ Len(Kinds) = Len(iter(path))
    /\ path.this.kind = "Children" => Len(path.parent_chain) >= 1
    /\ path.this.kind = "Child" =>
          /\ Len(path.parent_chain) >= 2
          /\ Len(path.parent_chain) - 1 >= 0

\* the shortest path that ends in a Child, after appends were rejected
C19_Witness ==
    /\ path.this.kind = "Child"
    /\ Len(path.parent_chain) = 2
    /\ called /\ ~res.ok

\* the thread is inside the body set_stack calls for a task
InsideRun(th) == th \in Workers /\ pc[th] \in {"running", "notify", "current"}

\* C12: the STACK slot of a thread is non-null exactly while the thread is a
\* worker inside run for a task, and then it is that task's stack; it is
\* null again once run returned or unwound; current() on a thread outside
\* a task panics and inside a task gives the stack of the task executing
C12_StackSlot ==
    \A th \in Threads :
        /\ STACK[th] # Null <=> InsideRun(th)
        /\ InsideRun(th) => STACK[th] = cur[th] /\ cur[th] \in live
        /\ get_proc_stack(th) = None <=> ~InsideRun(th)
        /\ pc[th] = "current" => curRes[th] = cur[th]
        /\ curRes[th] = Panicked => pc[th] = "dead" /\ th \notin Workers
        /\ th \notin Workers => curRes[th] \in {NoCall, Panicked}

C12_Witness ==
    /\ \E w \in Workers : pc[w] = "current" /\ curRes[w] = STACK[w]
    /\ \E w \in Workers : pc[w] = "dead" /\ STACK[w] = Null
    /\ \E th \in Foreign : curRes[th] = Panicked
\* worker w is between its failed local pops and the end of its steal pass
Stealing(w) == pc[w] \in {"steal_read", "steal_inj", "steal_peers"}

\* worker w holds a snapshot of the stats
InPass(w) == pc[w] \in {"steal_inj", "steal_peers"}

\* the step is a local pop of w that gave a task
PopSuccess(w) == pc[w] \in {"fetch", "steal_pop"} /\ pc'[w] = "got"

\* the step is a steal of w from the injector that gave a task
InjectorSuccess(w) == pc[w] = "steal_inj" /\ pc'[w] = "got"

\* the step is a steal of w from a peer that gave a task
PeerSuccess(w) == pc[w] = "steal_peers" /\ pc'[w] = "got"

\* C13: an acquisition pops the local queue first and a task popped there
\* is returned with the stats lock, the injector and every other queue
\* untouched; the stats are read only once the local queue is empty, then
\* the injector is tried, and peers only when the injector gave no task;
\* victims are visited in order of non-increasing published depth and the
\* first Success ends the pass
C13_AcquisitionOrder ==
    /\ [](\A w \in Workers :
            Stealing(w) => local[w] = << >> /\ cur[w] = NoTask)
    /\ [](\A w \in Workers : InPass(w) =>
            /\ w \in lock.readers
            /\ {core_vec[w][i] : i \in 1..Len(core_vec[w])}
                 = {<<v, stats.smp_queues[v]>> : v \in Entries(stats.smp_queues)}
            /\ Len(core_vec[w]) = Cardinality(Entries(stats.smp_queues))
            /\ \A i, j \in 1..Len(core_vec[w]) :
                  i < j => core_vec[w][i][2] >= core_vec[w][j][2])
    /\ [](\A w \in Workers : pc[w] = "steal_peers" =>
            /\ Len(outs[w]) = idx[w] - 1
            /\ \A i \in 1..Len(outs[w]) :
                  /\ outs[w][i][1] = core_vec[w][i][1]
                  /\ outs[w][i][2] \in {"Empty", "Retry"})
    /\ [][\A w \in Workers :
            /\ PopSuccess(w) =>
                  /\ cur'[w] = local[w][Len(local[w])]
                  /\ lock' = lock /\ injector' = injector
                  /\ \A v \in Workers \ {w} : local'[v] = local[v]
            /\ pc[w] \in {"fetch", "steal_pop"} /\ pc'[w] # pc[w]
                  /\ ~PopSuccess(w) => local[w] = << >>
            /\ pc[w] = "steal_read" /\ pc'[w] # pc[w] =>
                  pc'[w] = "steal_inj" /\ injector' = injector
                     /\ local' = local
            /\ InjectorSuccess(w) =>
                  /\ Count(injector, cur'[w]) = 1
                  /\ \A v \in Workers \ {w} : local'[v] = local[v]
            /\ pc[w] = "steal_inj" /\ pc'[w] = "steal_peers" =>
                  injector' = injector /\ local' = local /\ cur' = cur
            /\ PeerSuccess(w) =>
                  LET v == core_vec[w][idx[w]][1] IN
                  /\ Count(local[v], cur'[w]) = 1
                  /\ injector' = injector
                  /\ \A u \in Workers \ {w, v} : local'[u] = local[u]
                  /\ w \notin lock'.readers]_vars

C13_Witness ==
    \E w \in Workers :
        /\ pc[w] = "steal_peers" /\ idx[w] = 2 /\ injRes[w] = "Retry"
        /\ Len(core_vec[w]) = 2
        /\ core_vec[w][1][2] > core_vec[w][2][2]
        /\ core_vec[w][1][1] # w
        /\ outs[w][1][2] = "Retry"
\* the aggregate of a sequence of per-victim outcomes that has no Success
Aggregate(o) ==
    IF \E i \in 1..Len(o) : o[i][2] = "Retry" THEN "Retry" ELSE "Empty"

\* C14: whatever the outcomes of the victims of one pass, a Success comes
\* from the first victim in visiting order that had one and ends the pass;
\* with no Success the peers yield Retry if some victim returned Retry and
\* Empty otherwise, an empty snapshot included
C14_PeerAggregate ==
    /\ [](\A w \in Workers :
            pc[w] = "steal_peers" => agg[w] = Aggregate(outs[w]))
    /\ [][\A w \in Workers :
            /\ PeerSuccess(w) =>
                  /\ \A i \in 1..Len(outs[w]) : outs[w][i][2] # "Success"
                  /\ Len(outs[w]) = idx[w] - 1
                  /\ Count(local[core_vec[w][idx[w]][1]], cur'[w]) = 1
            /\ pc[w] = "steal_peers" /\ pc'[w] \in {"steal_read", "wait"} =>
                  /\ Len(outs[w]) = Len(core_vec[w])
                  /\ injRes[w] = "Empty" =>
                        (pc'[w] = "steal_read" <=> Aggregate(outs[w]) = "Retry")]_vars

C14_Witness ==
    \E w \in Workers :
        /\ pc[w] = "steal_peers" /\ idx[w] = 3
        /\ outs[w][1][2] = "Retry" /\ outs[w][2][2] = "Empty"
        /\ agg[w] = "Retry" /\ injRes[w] = "Empty"
\* the pass of w visited every victim and none gave a task
PassOver(w) == pc[w] = "steal_peers" /\ idx[w] > Len(core_vec[w])

\* C15: a failed try_read and a pass that was Retry lead back to the read
\* of the stats; an acquisition gives None only at the end of a pass that
\* held the read lock and found the injector and every victim Empty; a
\* worker parks only after such a None, and a worker with a task runs it
C15_RetryAndParking ==
    /\ [](\A w \in Workers :
            /\ pc[w] \in {"wait", "parked"} => cur[w] = NoTask
            /\ pc[w] = "got" => cur[w] \in live)
    /\ [][\A w \in Workers :
            /\ pc'[w] = "wait" /\ pc[w] # "wait" =>
                  /\ PassOver(w)
                  /\ w \in lock.readers
                  /\ injRes[w] = "Empty"
                  /\ Len(outs[w]) = Len(core_vec[w])
                  /\ \A i \in 1..Len(outs[w]) : outs[w][i][2] = "Empty"
            /\ pc'[w] = "parked" /\ pc[w] # "parked" => pc[w] = "wait"
            /\ pc[w] = "steal_read" /\ lock.writer # None =>
                  pc'[w] = "steal_read"
            /\ pc[w] = "steal_read" => pc'[w] \in {"steal_read", "steal_inj"}
            /\ PassOver(w) /\ pc'[w] # pc[w] =>
                  /\ pc'[w] \in {"steal_read", "wait"}
                  /\ pc'[w] = "steal_read" <=>
                        \/ injRes[w] = "Retry"
                        \/ \E i \in 1..Len(outs[w]) : outs[w][i][2] = "Retry"
            /\ pc[w] = "got" /\ pc'[w] # "got" =>
                  pc'[w] = "running" /\ STACK'[w] = cur[w]
                     /\ cur'[w] = cur[w]]_vars

C15_Witness ==
    \E w, v \in Workers :
        /\ pc[w] = "wait" /\ injector # << >>
        /\ pc[v] = "steal_read" /\ lock.writer = None /\ live # {}
\* how many tasks the step took from the queue of v
Moved(v) == Len(local[v]) - Len(local'[v])

SelfVictim(w) ==
    /\ pc[w] = "steal_peers"
    /\ idx[w] <= Len(core_vec[w])
    /\ core_vec[w][idx[w]][1] = w

\* C20: the snapshot of a stealing worker holds the worker's own id; the
\* worker's queue is empty for the whole pass, so the steal from its own
\* stealer comes back Empty, moves and returns no task and leaves every
\* task where it was, whatever depth is published for the worker
C20_SelfVictimHarmless ==
    /\ [](\A w \in Workers : InPass(w) =>
            /\ local[w] = << >>
            /\ \E i \in 1..Len(core_vec[w]) : core_vec[w][i][1] = w)
    /\ [][\A w \in Workers :
            SelfVictim(w) /\ (idx'[w] # idx[w] \/ pc'[w] # pc[w]) =>
               /\ pc'[w] = "steal_peers" /\ idx'[w] = idx[w] + 1
               /\ outs'[w] = Append(outs[w], <<w, "Empty">>)
               /\ local' = local /\ injector' = injector /\ cur' = cur
               /\ \A t \in live : Places(t)' = Places(t)]_vars

C20_Witness ==
    \E w \in Workers :
        /\ pc[w] = "steal_peers" /\ idx[w] = 2
        /\ outs[w] = << <<w, "Empty">> >>
        /\ core_vec[w][1] = <<w, 1>>
        /\ stats.smp_queues[w] = 1
        /\ live # {}
\* worker w is in a task acquisition
Acquiring(w) ==
    pc[w] \in {"fetch", "steal_pop", "steal_read", "steal_inj", "steal_peers"}

\* C18: under fairness every worker that is at the publish of its depth
\* gets the write lock and goes on to its acquisition, and every
\* acquisition returns Some or None: no worker retries the write lock, the
\* read lock or the pass for ever
C18_NoSpinForever ==
    \A w \in Workers :
        /\ pc[w] = "publish" ~> pc[w] = "fetch"
        /\ Acquiring(w) ~> pc[w] \in {"got", "wait"}
====
